---- MODULE Spec2Model ----
(***************************************************************************)
(* Model of framebuffer-manager (src/src/lib.rs, src/src/main.rs).         *)
(*                                                                         *)
(* The state is the template vector main builds, an FBmanager (display    *)
(* geometry, backing buffer, windows) and the position of the caller that  *)
(* drives it the way main.rs does: new -> fills -> enable_graphics ->      *)
(* draw -> read_line -> disable_graphics.  Pixel offsets are usize values; *)
(* usize arithmetic is kept with a (scaled) word width so that the         *)
(* subtractions of FBmanager::new can under-flow.                          *)
(***************************************************************************)
EXTENDS Integers, Sequences, FiniteSets, TLC

VARIABLES template, fb, windows, buffer, call, pc, kd, events, screen

vars == <<template, fb, windows, buffer, call, pc, kd, events, screen>>

(***************************************************************************)
(* Bounds of the model.                                                    *)
(***************************************************************************)
\* largest x / y of a template's location
MaxLoc == 1
\* largest width / height of a template
MaxDim == 4
\* largest border_thickness of a template
MaxThick == 2
\* length of the stand-alone buffer the Pixel operations are exercised on
PixBufLen == 4

(***************************************************************************)
(* usize.  The word is scaled from 64 to 16 bits; MemLimit is the number   *)
(* of elements beyond which a Vec allocation cannot succeed.               *)
(***************************************************************************)
UsizeMod == 2 ^ 16
MemLimit == 2 ^ 12

\* a - b on usize, as a release build computes it (wrapping)
WrapSub(a, b) == (a - b) % UsizeMod
\* a + b on usize, wrapping
WrapAdd(a, b) == (a + b) % UsizeMod

(***************************************************************************)
(* Inputs.                                                                 *)
(***************************************************************************)
\* (r, g, b) triples handed to the fill operations
Colors == { <<255, 0, 0>>, <<1, 2, 3>> }

\* what Framebuffer::new("/dev/fb0") reports: yres, line_length, bits_per_pixel
Geometries ==
    { [yres |-> 3, line_length |-> 12, bits_per_pixel |-> 32],
      [yres |-> 3, line_length |-> 8,  bits_per_pixel |-> 32],
      [yres |-> 3, line_length |-> 10, bits_per_pixel |-> 24],
      [yres |-> 2, line_length |-> 6,  bits_per_pixel |-> 16] }

Point(x, y) == [x |-> x, y |-> y]

Templates ==
    [ location : { Point(x, y) : x \in 0..MaxLoc, y \in 0..MaxLoc },
      width : 1..MaxDim, height : 1..MaxDim, border_thickness : 0..MaxThick ]

\* a full-screen bordered window, the role of main.rs's `background`
Background ==
    [ location |-> Point(0, 0), width |-> 3, height |-> 3, border_thickness |-> 1 ]

\* the template slices handed to FBmanager::new
TemplateLists ==
    { <<>> } \cup { <<t>> : t \in Templates }
             \cup { <<Background, t>> : t \in { u \in Templates : u.location = Point(0, 0) } }

(***************************************************************************)
(* Point                                                                   *)
(***************************************************************************)
\* impl Add<(usize,usize)> for Point / AddAssign
PointAdd(p, dx, dy) == Point(WrapAdd(p.x, dx), WrapAdd(p.y, dy))

(***************************************************************************)
(* Pixel                                                                   *)
(***************************************************************************)
InBuf(buf, i) == i \in DOMAIN buf

\* set_rgb storing the channels in r, g, b order
SetRgbSwapped(index, buf, r, g, b) ==
    IF ~InBuf(buf, index) THEN [buf |-> buf, ok |-> FALSE]
    ELSE LET b1 == [buf EXCEPT ![index] = r] IN
         IF ~InBuf(buf, index + 1) THEN [buf |-> b1, ok |-> FALSE]
         ELSE LET b2 == [b1 EXCEPT ![index + 1] = g] IN
              IF ~InBuf(buf, index + 2) THEN [buf |-> b2, ok |-> FALSE]
              ELSE [buf |-> [b2 EXCEPT ![index + 2] = b], ok |-> TRUE]

\* set_rgb adding the colour to what the buffer holds (`+=` for `=`)
SetRgbBlend(index, buf, r, g, b) ==
    IF ~InBuf(buf, index) THEN [buf |-> buf, ok |-> FALSE]
    ELSE LET b1 == [buf EXCEPT ![index] = (@ + b) % 256] IN
         IF ~InBuf(buf, index + 1) THEN [buf |-> b1, ok |-> FALSE]
         ELSE LET b2 == [b1 EXCEPT ![index + 1] = (@ + g) % 256] IN
              IF ~InBuf(buf, index + 2) THEN [buf |-> b2, ok |-> FALSE]
              ELSE [buf |-> [b2 EXCEPT ![index + 2] = (@ + r) % 256], ok |-> TRUE]

\* Pixel::set_rgb: three indexed stores, each bounds-checked; a failed check
\* panics and leaves the earlier stores in place.
SetRgb(index, buf, r, g, b) ==
    IF ~InBuf(buf, index) THEN [buf |-> buf, ok |-> FALSE]
    ELSE LET b1 == [buf EXCEPT ![index] = b] IN
         IF ~InBuf(buf, index + 1) THEN [buf |-> b1, ok |-> FALSE]
         ELSE LET b2 == [b1 EXCEPT ![index + 1] = g] IN
              IF ~InBuf(buf, index + 2) THEN [buf |-> b2, ok |-> FALSE]
              ELSE [buf |-> [b2 EXCEPT ![index + 2] = r], ok |-> TRUE]

\* Pixel::get_rgb: (buffer[index+2], buffer[index+1], buffer[index]); panics
\* when index + 2 is outside the buffer.
GetRgb(index, buf) ==
    IF InBuf(buf, index) /\ InBuf(buf, index + 1) /\ InBuf(buf, index + 2)
    THEN [rgb |-> <<buf[index + 2], buf[index + 1], buf[index]>>, ok |-> TRUE]
    ELSE [rgb |-> <<0, 0, 0>>, ok |-> FALSE]

(***************************************************************************)
(* Rectangle                                                               *)
(***************************************************************************)
BytesPP(g) == g.bits_per_pixel \div 8

\* the index with loc.x and loc.y exchanged
PixelIndexSwapped(loc, i, k, g) ==
    ((i + loc.x) * g.line_length + (k + loc.y) * BytesPP(g)) % UsizeMod

\* the index computed at lib.rs:91 for loop counters i, k
PixelIndex(loc, i, k, g) ==
    ((i + loc.y) * g.line_length + (k + loc.x) * BytesPP(g)) % UsizeMod

\* Rectangle::from_dimensions: rows i in 0..height, columns k in 0..width
FromDimensions(loc, height, width, g) ==
    [ location |-> loc, height |-> height, width |-> width,
      pixels |-> [ i \in 1..height |->
                     [ k \in 1..width |-> PixelIndex(loc, i - 1, k - 1, g) ] ] ]

\* whether the Vecs of from_dimensions can be allocated
Allocatable(height, width) ==
    height <= MemLimit /\ (height = 0 \/ width <= MemLimit)

RECURSIVE Concat(_)
Concat(rows) == IF rows = <<>> THEN <<>> ELSE Head(rows) \o Concat(Tail(rows))

\* the Pixels of a Rectangle in the order self.pixels.iter() visits them
PixelSeq(rect) == Concat(rect.pixels)

RECURSIVE FillSeq(_, _, _)
FillSeq(ps, buf, rgb) ==
    IF ps = <<>> THEN [buf |-> buf, ok |-> TRUE]
    ELSE LET s == SetRgb(Head(ps), buf, rgb[1], rgb[2], rgb[3]) IN
         IF s.ok THEN FillSeq(Tail(ps), s.buf, rgb) ELSE s

\* Rectangle::fill
RectFill(rect, buf, rgb) == FillSeq(PixelSeq(rect), buf, rgb)

(***************************************************************************)
(* Window                                                                  *)
(***************************************************************************)
\* Window::fill
WindowFill(w, buf, rgb) == RectFill(w.main_context, buf, rgb)

\* Window::fill_border: top, left, right, bot, in this order
WindowFillBorder(w, buf, rgb) ==
    IF w.border = <<>> THEN [buf |-> buf, ok |-> TRUE]
    ELSE LET br == w.border[1]
             s1 == RectFill(br.top, buf, rgb)
             s2 == RectFill(br.left, s1.buf, rgb)
             s3 == RectFill(br.right, s2.buf, rgb)
         IN  IF ~s1.ok THEN s1
             ELSE IF ~s2.ok THEN s2
             ELSE IF ~s3.ok THEN s3
             ELSE RectFill(br.bot, s3.buf, rgb)

(***************************************************************************)
(* FBmanager::new                                                          *)
(***************************************************************************)
\* the usize subtractions of one loop iteration that under-flow
\* (lib.rs:185, 188, 189, 203, 204)
Underflows(t) ==
    /\ t.border_thickness > 0
    /\ \/ t.height < t.border_thickness
       \/ t.width < t.border_thickness
       \/ t.height < 2 * t.border_thickness
       \/ t.width < 2 * t.border_thickness

\* the dimensions the loop body hands to from_dimensions, wrapping
BorderHeight(t) == WrapSub(t.height, 2 * t.border_thickness)
ContextHeight(t) ==
    IF t.border_thickness > 0 THEN WrapSub(t.height, 2 * t.border_thickness) ELSE t.height
ContextWidth(t) ==
    IF t.border_thickness > 0 THEN WrapSub(t.width, 2 * t.border_thickness) ELSE t.width
StartLocation(t) ==
    IF t.border_thickness > 0
    THEN PointAdd(t.location, t.border_thickness, t.border_thickness)
    ELSE t.location

\* every Vec of the iteration can be allocated
AllAllocatable(t) ==
    /\ t.border_thickness > 0 =>
          /\ Allocatable(t.border_thickness, t.width)
          /\ Allocatable(BorderHeight(t), t.border_thickness)
    /\ Allocatable(ContextHeight(t), ContextWidth(t))

\* the Border built at lib.rs:179-200
BuildBorder(t, g) ==
    LET th == t.border_thickness IN
    [ top   |-> FromDimensions(t.location, th, t.width, g),
      bot   |-> FromDimensions(PointAdd(t.location, 0, WrapSub(t.height, th)), th, t.width, g),
      right |-> FromDimensions(PointAdd(t.location, WrapSub(t.width, th), th), BorderHeight(t), th, g),
      left  |-> FromDimensions(PointAdd(t.location, 0, th), BorderHeight(t), th, g) ]

\* the Window built by one iteration of the loop at lib.rs:173-215
BuildWindow(t, g) ==
    [ border |-> IF t.border_thickness > 0 THEN << BuildBorder(t, g) >> ELSE <<>>,
      width |-> t.width,
      height |-> t.height,
      main_context |-> FromDimensions(StartLocation(t), ContextHeight(t), ContextWidth(t), g) ]

\* how FBmanager::new ends for a template slice: with overflow checks
\* (debug build) the first under-flowing subtraction panics; without them
\* (release build) the value wraps and the allocation of a Rectangle of
\* that size fails.
NewOutcome(ts, checks) ==
    IF checks /\ \E n \in 1..Len(ts) : Underflows(ts[n]) THEN "overflow_panic"
    ELSE IF \E n \in 1..Len(ts) : ~AllAllocatable(ts[n]) THEN "alloc_failure"
    ELSE "ok"

NoCall == [op |-> "none", id |-> 0, rgb |-> <<0, 0, 0>>, outcome |-> "ok"]

NoGeometry == [yres |-> 0, line_length |-> 0, bits_per_pixel |-> 0]

\* vec![0u8; line_length*height]
ZeroBuffer(g) == [ i \in 0..(g.line_length * g.yres - 1) |-> 0 ]

\* main.rs:5-45: the template vector is built; nothing else exists yet
Init ==
    /\ template \in TemplateLists
    /\ fb = NoGeometry
    /\ windows = <<>>
    /\ buffer = << >>
    /\ call = NoCall
    /\ pc = "start"
    /\ kd = "text"
    /\ events = <<>>
    /\ screen = << >>

\* FBmanager::new(&template) on a display of geometry g, in a build with
\* (checks) or without overflow checks
New(g, checks) ==
    /\ pc = "start"
    /\ LET ts == template
           out == NewOutcome(ts, checks) IN
       IF out = "ok"
       THEN /\ fb' = g
            /\ buffer' = ZeroBuffer(g)
            /\ windows' = [ n \in 1..Len(ts) |-> BuildWindow(ts[n], g) ]
            /\ call' = [NoCall EXCEPT !.op = "new"]
            /\ pc' = "ready"
       ELSE /\ call' = [NoCall EXCEPT !.op = "new", !.outcome = out]
            /\ pc' = "exited"
            /\ UNCHANGED <<fb, buffer, windows>>
    /\ UNCHANGED <<template, kd, events, screen>>

NewAny == \E g \in Geometries, checks \in BOOLEAN : New(g, checks)

(***************************************************************************)
(* FBmanager::fill / fill_border.  `self.windows[id]` is evaluated first   *)
(* and panics for id >= windows.len(); a Pixel whose channel bytes lie     *)
(* outside the buffer panics inside set_rgb.  A panic unwinds out of the   *)
(* call; the FBmanager itself is left as the call left it.                 *)
(***************************************************************************)
\* ids a caller may pass: the valid ones and one past the end
Ids == 0..Len(windows)

\* fill with the id clamped to the last window instead of checked
FillResultClamped(id, rgb) ==
    IF Len(windows) = 0 THEN [buf |-> buffer, outcome |-> "index_panic"]
    ELSE LET j == IF id >= Len(windows) THEN Len(windows) ELSE id + 1
             s == WindowFill(windows[j], buffer, rgb)
         IN  [buf |-> s.buf, outcome |-> IF s.ok THEN "ok" ELSE "buffer_panic"]

FillResult(id, rgb) ==
    IF id >= Len(windows) THEN [buf |-> buffer, outcome |-> "index_panic"]
    ELSE LET s == WindowFill(windows[id + 1], buffer, rgb) IN
         [buf |-> s.buf, outcome |-> IF s.ok THEN "ok" ELSE "buffer_panic"]

FillBorderResult(id, rgb) ==
    IF id >= Len(windows) THEN [buf |-> buffer, outcome |-> "index_panic"]
    ELSE LET s == WindowFillBorder(windows[id + 1], buffer, rgb) IN
         [buf |-> s.buf, outcome |-> IF s.ok THEN "ok" ELSE "buffer_panic"]

\* FBmanager::fill(id, rgb)
Fill(id, rgb) ==
    /\ pc = "ready"
    /\ LET res == FillResult(id, rgb) IN
       /\ buffer' = res.buf
       /\ call' = [op |-> "fill", id |-> id, rgb |-> rgb, outcome |-> res.outcome]
    /\ UNCHANGED <<template, fb, windows, pc, kd, events, screen>>

\* FBmanager::fill_border(id, rgb)
FillBorder(id, rgb) ==
    /\ pc = "ready"
    /\ LET res == FillBorderResult(id, rgb) IN
       /\ buffer' = res.buf
       /\ call' = [op |-> "fill_border", id |-> id, rgb |-> rgb, outcome |-> res.outcome]
    /\ UNCHANGED <<template, fb, windows, pc, kd, events, screen>>

FillAny == \E id \in Ids, rgb \in Colors : Fill(id, rgb)

FillBorderAny == \E id \in Ids, rgb \in Colors : FillBorder(id, rgb)

(***************************************************************************)
(* The tail of main: enable_graphics().unwrap(); draw(); read_line(..)     *)
(* .unwrap_or_default(); disable_graphics().unwrap().  The device calls    *)
(* are external; each may succeed or fail.                                 *)
(***************************************************************************)
\* main.rs:52  FBmanager::enable_graphics().unwrap()
EnableGraphics(ok) ==
    /\ pc = "ready"
    /\ events' = Append(events, "enable")
    /\ IF ok THEN kd' = "graphics" /\ pc' = "graphics"
             ELSE kd' = kd /\ pc' = "exited"
    /\ call' = [NoCall EXCEPT !.op = "enable_graphics",
                              !.outcome = IF ok THEN "ok" ELSE "device_error"]
    /\ UNCHANGED <<template, fb, windows, buffer, screen>>

\* main.rs:53  fm.draw(): write_frame copies the buffer to the device frame
\* and panics when the two lengths differ
Draw(ok) ==
    /\ pc = "graphics"
    /\ events' = Append(events, "draw")
    /\ IF ok THEN screen' = buffer /\ pc' = "drawn"
             ELSE screen' = screen /\ pc' = "exited"
    /\ call' = [NoCall EXCEPT !.op = "draw",
                              !.outcome = IF ok THEN "ok" ELSE "device_panic"]
    /\ UNCHANGED <<template, fb, windows, buffer, kd>>

\* main.rs:54  io::stdin().read_line(..).unwrap_or_default()
ReadLine(ok) ==
    /\ pc = "drawn"
    /\ events' = Append(events, "wait")
    /\ pc' = "waited"
    /\ call' = [NoCall EXCEPT !.op = "read_line",
                              !.outcome = IF ok THEN "ok" ELSE "io_error"]
    /\ UNCHANGED <<template, fb, windows, buffer, kd, screen>>

\* main.rs:55  FBmanager::disable_graphics().unwrap()
DisableGraphics(ok) ==
    /\ pc = "waited"
    /\ events' = Append(events, "disable")
    /\ kd' = IF ok THEN "text" ELSE kd
    /\ pc' = "exited"
    /\ call' = [NoCall EXCEPT !.op = "disable_graphics",
                              !.outcome = IF ok THEN "ok" ELSE "device_error"]
    /\ UNCHANGED <<template, fb, windows, buffer, screen>>

EnableAny == \E ok \in BOOLEAN : EnableGraphics(ok)

DrawAny == \E ok \in BOOLEAN : Draw(ok)

ReadLineAny == \E ok \in BOOLEAN : ReadLine(ok)

DisableAny == \E ok \in BOOLEAN : DisableGraphics(ok)

Next ==
    \/ NewAny
    \/ FillAny
    \/ FillBorderAny
    \/ EnableAny
    \/ DrawAny
    \/ ReadLineAny
    \/ DisableAny

Spec == Init /\ [][Next]_vars

(***************************************************************************)
(* Pixel::set_rgb / get_rgb on their own: a Pixel of any index against a   *)
(* caller-supplied buffer.                                                 *)
(***************************************************************************)
InitPixel ==
    /\ template = <<>>
    /\ fb = NoGeometry
    /\ windows = <<>>
    /\ buffer \in [ 0..(PixBufLen - 1) -> {0, 7} ]
    /\ call = NoCall
    /\ pc = "pixel"
    /\ kd = "text"
    /\ events = <<>>
    /\ screen = << >>

\* Pixel{index}.set_rgb(buffer, r, g, b)
PixelSet(index, rgb) ==
    /\ pc = "pixel"
    /\ LET s == SetRgb(index, buffer, rgb[1], rgb[2], rgb[3]) IN
       /\ buffer' = s.buf
       /\ call' = [op |-> "set_rgb", id |-> index, rgb |-> rgb,
                   outcome |-> IF s.ok THEN "ok" ELSE "buffer_panic"]
    /\ UNCHANGED <<template, fb, windows, pc, kd, events, screen>>

\* Pixel{index}.get_rgb(buffer)
PixelGet(index) ==
    /\ pc = "pixel"
    /\ LET s == GetRgb(index, buffer) IN
       call' = [op |-> "get_rgb", id |-> index, rgb |-> s.rgb,
                outcome |-> IF s.ok THEN "ok" ELSE "buffer_panic"]
    /\ UNCHANGED <<template, fb, windows, buffer, pc, kd, events, screen>>

PixelSetAny == \E index \in 0..PixBufLen, rgb \in Colors : PixelSet(index, rgb)

PixelGetAny == \E index \in 0..PixBufLen : PixelGet(index)

NextPixel == PixelSetAny \/ PixelGetAny

SpecPixel == InitPixel /\ [][NextPixel]_vars

(***************************************************************************)
(* Vocabulary of the properties.                                           *)
(***************************************************************************)
\* the border Rectangles of a Window
BorderRects(w) ==
    IF w.border = <<>> THEN {}
    ELSE { w.border[1].top, w.border[1].bot, w.border[1].left, w.border[1].right }

Rects(w) == { w.main_context } \cup BorderRects(w)

\* the offsets of a Rectangle's Pixels
Offsets(r) ==
    UNION { { r.pixels[i][k] : k \in 1..Len(r.pixels[i]) } : i \in 1..Len(r.pixels) }

\* the number of Pixels a Rectangle holds
PixelCount(r) == Len(PixelSeq(r))

\* the three channel bytes of the Pixels of a Rectangle
ChannelBytes(r) == UNION { { o, o + 1, o + 2 } : o \in Offsets(r) }

BufLen == fb.line_length * fb.yres

Min(a, b) == IF a <= b THEN a ELSE b

\* offset of screen position (row, col) of a Rectangle, in plain arithmetic
OffsetAt(r, row, col) ==
    (row + r.location.y) * fb.line_length + (col + r.location.x) * BytesPP(fb)

ShapeAndOffsets(r) ==
    /\ Len(r.pixels) = r.height
    /\ \A i \in 1..Len(r.pixels) : Len(r.pixels[i]) = r.width
    /\ PixelCount(r) = r.height * r.width
    /\ \A i \in 1..Len(r.pixels) : \A k \in 1..Len(r.pixels[i]) :
          r.pixels[i][k] = OffsetAt(r, i - 1, k - 1)

UniqueOffsets(r) ==
    \A i1 \in 1..Len(r.pixels), i2 \in 1..Len(r.pixels) :
       \A k1 \in 1..Len(r.pixels[i1]), k2 \in 1..Len(r.pixels[i2]) :
          r.pixels[i1][k1] = r.pixels[i2][k2] => (i1 = i2 /\ k1 = k2)

AllRects == UNION { Rects(windows[n]) : n \in 1..Len(windows) }

Regions(w) ==
    << w.main_context, w.border[1].top, w.border[1].bot, w.border[1].left, w.border[1].right >>

\* the Rectangle over the full width x height footprint of a bordered Window
Footprint(w) == FromDimensions(w.border[1].top.location, w.height, w.width, fb)

\* the four t x t corner blocks of the footprint
CornerOffsets(w) ==
    LET t == w.border[1].top.height
        full == Footprint(w)
    IN  { OffsetAt(full, row, col) :
            row \in ((0..(t - 1)) \cup ((w.height - t)..(w.height - 1))) \cap (0..(w.height - 1)),
            col \in ((0..(t - 1)) \cup ((w.width - t)..(w.width - 1))) \cap (0..(w.width - 1)) }

\* C2: for every Window built with border_thickness t > 0 the offset sets of
\* main_context, top, bot, left and right are pairwise disjoint, their union
\* is the offset set of the full footprint, the border holds
\* width*height - (width-2t)*(height-2t) pixels, the interior holds
\* (width-2t)*(height-2t) pixels starting at location + (t, t), and the
\* corner blocks belong to top/bot and not to left/right.
C2_BorderPartition ==
    \A n \in 1..Len(windows) :
       LET w == windows[n] IN
       w.border # <<>> =>
          LET regs == Regions(w)
              br == w.border[1]
              t == br.top.height
              inner == (w.width - 2 * t) * (w.height - 2 * t)
          IN  /\ \A a \in 1..5, b \in 1..5 :
                    a < b => Offsets(regs[a]) \cap Offsets(regs[b]) = {}
              /\ UNION { Offsets(regs[a]) : a \in 1..5 } = Offsets(Footprint(w))
              /\ PixelCount(br.top) + PixelCount(br.bot) + PixelCount(br.left)
                   + PixelCount(br.right) = w.width * w.height - inner
              /\ PixelCount(w.main_context) = inner
              /\ w.main_context.location = Point(br.top.location.x + t, br.top.location.y + t)
              /\ CornerOffsets(w) \subseteq (Offsets(br.top) \cup Offsets(br.bot))
              /\ CornerOffsets(w) \cap (Offsets(br.left) \cup Offsets(br.right)) = {}

(***************************************************************************)
(* C3                                                                      *)
(***************************************************************************)
\* C3: every Pixel of every Rectangle of every Window satisfies
\* offset + 2 < buffer.length, and no fill or fill_border with a valid id
\* accesses the buffer out of bounds.
C3_OffsetsInBuffer ==
    /\ \A r \in AllRects : \A o \in Offsets(r) : o + 2 < BufLen
    /\ call.outcome # "buffer_panic"

(***************************************************************************)
(* C4                                                                      *)
(***************************************************************************)
\* C4: after fill(id, (r, g, b)) on a borderless window at (x, y) of size
\* width x height the buffer holds b, g, r at
\* (row + y) * row_stride + (col + x) * bytes_per_pixel (+0, +1, +2) for
\* every row in [0, height) and col in [0, width).
C4_BorderlessFill ==
    (call.op = "fill" /\ call.id < Len(windows) /\ windows[call.id + 1].border = <<>>) =>
       LET w == windows[call.id + 1]
           m == w.main_context
       IN  \A row \in 0..(w.height - 1), col \in 0..(w.width - 1) :
              LET o == OffsetAt(m, row, col) IN
              /\ InBuf(buffer, o + 2)
              /\ buffer[o] = call.rgb[3]
              /\ buffer[o + 1] = call.rgb[2]
              /\ buffer[o + 2] = call.rgb[1]

(***************************************************************************)
(* C5                                                                      *)
(***************************************************************************)
\* C5: fill / fill_border with id >= number of windows fails with an index
\* error, leaves the buffer (and the windows) exactly as they were, and the
\* manager stays ready for later calls.
C5_BadIdLeavesBuffer ==
    [][ (call'.op \in {"fill", "fill_border"} /\ call'.id >= Len(windows)) =>
           /\ call'.outcome = "index_panic"
           /\ buffer' = buffer
           /\ windows' = windows
           /\ fb' = fb
           /\ pc' = "ready" ]_vars

C5_Witness ==
    /\ call.op \in {"fill", "fill_border"}
    /\ call.outcome = "index_panic"
    /\ call.id >= Len(windows)
    /\ Len(windows) > 0
    /\ \E i \in DOMAIN buffer : buffer[i] # 0

(***************************************************************************)
(* C6                                                                      *)
(***************************************************************************)
\* C6: FBmanager::new reports a configuration error for every template with
\* border_thickness t > 0 and 2*t >= min(width, height); it never returns a
\* Window with an empty interior, and it fails in no other way.
C6_ThicknessRejected ==
    /\ \A n \in 1..Len(windows) :
          LET w == windows[n] IN
          w.border # <<>> =>
             /\ 2 * w.border[1].top.height < Min(w.width, w.height)
             /\ PixelCount(w.main_context) > 0
    /\ (call.op = "new" /\ call.outcome # "ok") => call.outcome = "configuration_error"

(***************************************************************************)
(* C7                                                                      *)
(***************************************************************************)
IsPrefix(s, t) == Len(s) <= Len(t) /\ \A i \in 1..Len(s) : s[i] = t[i]

\* C7: the device-mode events occur in the order enable_graphics, draw,
\* wait, disable_graphics, and whenever the process has exited after
\* enable_graphics succeeded, disable_graphics was invoked before the exit.
C7_DisableBeforeExit ==
    /\ IsPrefix(events, <<"enable", "draw", "wait", "disable">>)
    /\ (pc = "exited" /\ kd = "graphics") =>
          (events # <<>> /\ events[Len(events)] = "disable")

(***************************************************************************)
(* C8                                                                      *)
(***************************************************************************)
\* C8: filling again with the same colour changes nothing: the buffer a
\* fill / fill_border call leaves is a fixed point of that same call, and
\* of Rectangle::fill on each Rectangle the call filled.
C8_FillIdempotent ==
    (call.op \in {"fill", "fill_border"} /\ call.id < Len(windows)) =>
       LET w == windows[call.id + 1] IN
       /\ call.op = "fill" =>
             /\ FillResult(call.id, call.rgb).buf = buffer
             /\ call.outcome = "ok" => RectFill(w.main_context, buffer, call.rgb).buf = buffer
       /\ call.op = "fill_border" =>
             /\ FillBorderResult(call.id, call.rgb).buf = buffer
             /\ call.outcome = "ok" =>
                   \A r \in BorderRects(w) :
                      LET once == RectFill(r, buffer, call.rgb).buf IN
                      RectFill(r, once, call.rgb).buf = once

C8_Witness ==
    /\ call.op = "fill_border"
    /\ call.outcome = "ok"
    /\ call.id < Len(windows)
    /\ windows[call.id + 1].border # <<>>
    /\ PixelCount(windows[call.id + 1].main_context) > 0
    /\ \E i \in DOMAIN buffer, j \in DOMAIN buffer :
          buffer[i] = call.rgb[1] /\ buffer[j] # 0 /\ buffer[j] \notin { call.rgb[1], call.rgb[2], call.rgb[3] }

(***************************************************************************)
(* C9                                                                      *)
(***************************************************************************)
\* C9: for every Pixel with offset + 2 inside the buffer, set_rgb(r, g, b)
\* succeeds, stores b at offset, g at offset + 1, r at offset + 2, and
\* get_rgb on the same Pixel then returns exactly (r, g, b).
C9_RoundTrip ==
    (call.op = "set_rgb" /\ call.id + 2 < PixBufLen) =>
       /\ call.outcome = "ok"
       /\ buffer[call.id] = call.rgb[3]
       /\ buffer[call.id + 1] = call.rgb[2]
       /\ buffer[call.id + 2] = call.rgb[1]
       /\ GetRgb(call.id, buffer) = [rgb |-> call.rgb, ok |-> TRUE]

C9_Witness ==
    /\ call.op = "set_rgb"
    /\ call.outcome = "ok"
    /\ call.id > 0
    /\ call.rgb = <<1, 2, 3>>
    /\ GetRgb(call.id, buffer).rgb = <<1, 2, 3>>
    /\ buffer[0] = 7

(***************************************************************************)
(* C10                                                                     *)
(***************************************************************************)
\* the bytes a step changed
Changed == { i \in DOMAIN buffer : buffer'[i] # buffer[i] }

BorderChannelBytes(w) == UNION { ChannelBytes(r) : r \in BorderRects(w) }

\* the fourth byte of each of a Window's Pixels
PaddingBytes(w) == { o + 3 : o \in UNION { Offsets(r) : r \in Rects(w) } }

\* C10: with bytes_per_pixel >= 3 and a valid id, fill changes only channel
\* bytes of main_context Pixels, and changes neither the window's own border
\* Pixels, nor a fourth (padding) byte, nor the buffer length; fill_border
\* changes only channel bytes of border Pixels, no byte of main_context, and
\* nothing when the window has no border.
C10_FillFrame ==
    [][ (call'.op \in {"fill", "fill_border"} /\ call'.id < Len(windows) /\ BytesPP(fb) >= 3) =>
           LET w == windows[call'.id + 1] IN
           /\ DOMAIN buffer' = DOMAIN buffer
           /\ call'.op = "fill" =>
                 /\ Changed \subseteq ChannelBytes(w.main_context)
                 /\ Changed \cap BorderChannelBytes(w) = {}
                 /\ BytesPP(fb) >= 4 => Changed \cap PaddingBytes(w) = {}
           /\ call'.op = "fill_border" =>
                 /\ Changed \subseteq BorderChannelBytes(w)
                 /\ Changed \cap ChannelBytes(w.main_context) = {}
                 /\ BytesPP(fb) >= 4 => Changed \cap PaddingBytes(w) = {}
                 /\ w.border = <<>> => buffer' = buffer ]_vars
====
